---- MODULE Spec2Model ----
(***************************************************************************)
(* Model of pytorchsweeper's Minesweeper engine (src/game.py).             *)
(*                                                                         *)
(* The state is one MinesweeperGame object together with the position of   *)
(* the Python interpreter inside its methods: the generate_minefield loop  *)
(* and the recursive guess calls are taken one step at a time, the call    *)
(* stack of guess being part of the state. The client of the object is     *)
(* either free (any sequence of guess calls) or calculate_win_rate's loop  *)
(* of src/utils.py driven by a guessing policy of src/ais.py.              *)
(***************************************************************************)
EXTENDS Integers, Sequences, FiniteSets, TLC

\* Largest board dimensions and mine count the model constructs.
MaxWidth == 4
MaxHeight == 4
MaxMines == 2
\* Largest number of cells (width * height) of a constructed board.
MaxCells == 12

VARIABLES
    pc,                     \* where the interpreter is: "new", "init", "idle",
                            \* "placing", "flood", "raised"
    width, height, mines,   \* self.width, self.height, self.mines
    minefield_initialized,  \* self.minefield_initialized
    minefield,              \* self.minefield (None until generated)
    exposedfield,           \* self.exposedfield
    numberfield,            \* self.numberfield (None until generated)
    mine_array,             \* local of generate_minefield while it runs
    stack,                  \* active guess calls, outermost first
    ret,                    \* what the last guess call that returned gave back:
                            \* "True" or "False", "None" before any return
    first_guess,            \* history: the (avoid_x, avoid_y) generate_minefield
                            \* was called with, None before that call
    ai,                     \* calculate_win_rate's ai: "Cheating", "Any",
                            \* or "None" outside calculate_win_rate
    wr,                     \* where calculate_win_rate is: "off" (not running),
                            \* "loop", "call", "done", "raised"
    calls                   \* history: the game.guess calls calculate_win_rate made

vars == <<pc, width, height, mines, minefield_initialized, minefield,
          exposedfield, numberfield, mine_array, stack, ret, first_guess,
          ai, wr, calls>>

\* The variables of calculate_win_rate, which no method of the game touches.
client == <<ai, wr, calls>>

\* Python's None, for the fields that are absent until the first valid guess.
None == <<>>

\* The index set of a numpy array of shape (w, h) built from [[v]*h]*w.
Cells(w, h) == (0 .. w - 1) \X (0 .. h - 1)

\* np.array([[False]*height]*width, dtype=bool)
AllFalse(w, h) == [c \in Cells(w, h) |-> FALSE]

\* The negation of guess's first guard: x<0 or x>=width or y<0 or y>=height.
InRange(x, y) == ~(x < 0 \/ x >= width \/ y < 0 \/ y >= height)

\* Mutant of Avoided: only the clicked cell itself is kept free of mines.
AvoidedCellOnly(avoid_x, avoid_y, x, y) ==
    avoid_x = x /\ avoid_y = y

\* generate_minefield's test: avoid_x-1 <= x <= avoid_x+1 and avoid_y-1 <= y <= avoid_y+1
Avoided(avoid_x, avoid_y, x, y) ==
    /\ avoid_x - 1 <= x /\ x <= avoid_x + 1
    /\ avoid_y - 1 <= y /\ y <= avoid_y + 1

\* mine_array.sum()
ArraySum(a) == Cardinality({c \in DOMAIN a : a[c]})

\* np.pad(minefield, 1).astype(int): a (width+2) x (height+2) array of 0/1
\* holding the minefield at offset (1, 1) and 0 on the one-cell border.
Pad(mf) ==
    [p \in Cells(width + 2, height + 2) |->
        IF <<p[1] - 1, p[2] - 1>> \in DOMAIN mf /\ mf[<<p[1] - 1, p[2] - 1>>]
        THEN 1 ELSE 0]

\* Mutant of NumberfieldOf: the slice pf[1:width+1, :height] is left out.
NumberfieldSevenSlices(mf) ==
    LET pf == Pad(mf) IN
    [c \in Cells(width, height) |->
          pf[<<c[1], c[2]>>]
        + pf[<<c[1] + 2, c[2]>>]
        + pf[<<c[1], c[2] + 1>>]
        + pf[<<c[1] + 2, c[2] + 1>>]
        + pf[<<c[1], c[2] + 2>>]
        + pf[<<c[1] + 1, c[2] + 2>>]
        + pf[<<c[1] + 2, c[2] + 2>>]]

\* generate_numberfield: the sum of the eight shifted slices of the padded field.
NumberfieldOf(mf) ==
    LET pf == Pad(mf) IN
    [c \in Cells(width, height) |->
          pf[<<c[1], c[2]>>]
        + pf[<<c[1] + 1, c[2]>>]
        + pf[<<c[1] + 2, c[2]>>]
        + pf[<<c[1], c[2] + 1>>]
        + pf[<<c[1] + 2, c[2] + 1>>]
        + pf[<<c[1], c[2] + 2>>]
        + pf[<<c[1] + 1, c[2] + 2>>]
        + pf[<<c[1] + 2, c[2] + 2>>]]

\* The lost property.
lost ==
    IF minefield_initialized
    THEN \E c \in Cells(width, height) : minefield[c] /\ exposedfield[c]
    ELSE FALSE

\* Mutant of won: logical_or in place of logical_xor.
wonWithOr ==
    IF minefield_initialized
    THEN \A c \in Cells(width, height) : minefield[c] \/ exposedfield[c]
    ELSE FALSE

\* The won property: np.all(np.logical_xor(minefield, exposedfield)).
won ==
    IF minefield_initialized
    THEN \A c \in Cells(width, height) : minefield[c] # exposedfield[c]
    ELSE FALSE

\* Mutant of is_over: the lost property is left out.
is_overWonOnly == won

\* The is_over property.
is_over == lost \/ won

\* The fill value of visible_gamestate for unknown cells.
Unknown == -10

\* Whether reading visible_gamestate raises: np.full((width, height), -10)
\* raises ValueError for a negative dimension.
visible_gamestate_raises ==
    ~minefield_initialized /\ (width < 0 \/ height < 0)

\* The visible_gamestate property, when reading it does not raise.
visible_gamestate ==
    IF minefield_initialized
    THEN [c \in Cells(width, height) |->
            IF exposedfield[c] THEN numberfield[c] ELSE Unknown]
    ELSE [c \in Cells(width, height) |-> Unknown]

\* A frame of guess(x, y): i counts the neighbours already passed to the
\* recursive call by the two nested loops (0 .. 9).
Frame(x, y) == [x |-> x, y |-> y, i |-> 0]

\* Mutant of NewY: the inner loop runs over [y-1, y, y] and never reaches y+1.
NewYSkipsLast(f) == f.y - 1 + (IF f.i % 3 = 2 THEN 1 ELSE f.i % 3)

\* Mutant of NewX: the outer loop runs over [x-1, x, x] and never reaches x+1.
NewXSkipsLast(f) == f.x - 1 + (IF f.i \div 3 = 2 THEN 1 ELSE f.i \div 3)

\* The i-th (0-based) pair of: for new_x in [x-1, x, x+1]: for new_y in [y-1, y, y+1].
NewX(f) == f.x - 1 + (f.i \div 3)
NewY(f) == f.y - 1 + (f.i % 3)

\* Where control is once a guess call has returned to the callers in stk.
After(stk) == IF stk = <<>> THEN "idle" ELSE "flood"

\* Mutant of Expose: the exposed array is rebuilt with only the new cell set.
ExposeRebuilds(x, y, stk, nf) ==
    /\ exposedfield' = [AllFalse(width, height) EXCEPT ![<<x, y>>] = TRUE]
    /\ IF nf[<<x, y>>] = 0
       THEN /\ stack' = Append(stk, Frame(x, y))
            /\ pc' = "flood"
            /\ ret' = ret
       ELSE /\ stack' = stk
            /\ pc' = After(stk)
            /\ ret' = "True"

\* Lines 35-43 of guess(x, y) up to the first recursive call, with nf the
\* numberfield in force: expose the cell, then either enter the loops or return True.
Expose(x, y, stk, nf) ==
    /\ exposedfield' = [exposedfield EXCEPT ![<<x, y>>] = TRUE]
    /\ IF nf[<<x, y>>] = 0
       THEN /\ stack' = Append(stk, Frame(x, y))
            /\ pc' = "flood"
            /\ ret' = ret
       ELSE /\ stack' = stk
            /\ pc' = After(stk)
            /\ ret' = "True"

\* Mutant of Enter: the already-exposed guard is missing.
EnterIgnoresExposed(x, y, stk) ==
    IF ~InRange(x, y)
    THEN /\ ret' = "False"
         /\ stack' = stk
         /\ pc' = After(stk)
         /\ UNCHANGED <<minefield_initialized, minefield, exposedfield,
                        numberfield, mine_array, first_guess>>
    ELSE IF ~minefield_initialized
    THEN /\ pc' = "placing"
         /\ mine_array' = AllFalse(width, height)
         /\ stack' = Append(stk, Frame(x, y))
         /\ first_guess' = <<x, y>>
         /\ UNCHANGED <<minefield_initialized, minefield, exposedfield,
                        numberfield, ret>>
    ELSE /\ Expose(x, y, stk, numberfield)
         /\ UNCHANGED <<minefield_initialized, minefield, numberfield, mine_array,
                        first_guess>>

\* Mutant of Enter: the minefield is generated on every valid call, with no
\* test of minefield_initialized.
EnterAlwaysGenerates(x, y, stk) ==
    IF ~InRange(x, y) \/ exposedfield[<<x, y>>]
    THEN /\ ret' = "False"
         /\ stack' = stk
         /\ pc' = After(stk)
         /\ UNCHANGED <<minefield_initialized, minefield, exposedfield,
                        numberfield, mine_array, first_guess>>
    ELSE /\ pc' = "placing"
         /\ mine_array' = AllFalse(width, height)
         /\ stack' = Append(stk, Frame(x, y))
         /\ first_guess' = <<x, y>>
         /\ UNCHANGED <<minefield_initialized, minefield, exposedfield,
                        numberfield, ret>>

\* Mutant of Enter: the initialization test comes before the two guards.
EnterInitializesFirst(x, y, stk) ==
    IF ~minefield_initialized
    THEN /\ pc' = "placing"
         /\ mine_array' = AllFalse(width, height)
         /\ stack' = Append(stk, Frame(x, y))
         /\ first_guess' = <<x, y>>
         /\ UNCHANGED <<minefield_initialized, minefield, exposedfield,
                        numberfield, ret>>
    ELSE IF ~InRange(x, y) \/ exposedfield[<<x, y>>]
    THEN /\ ret' = "False"
         /\ stack' = stk
         /\ pc' = After(stk)
         /\ UNCHANGED <<minefield_initialized, minefield, exposedfield,
                        numberfield, mine_array, first_guess>>
    ELSE /\ Expose(x, y, stk, numberfield)
         /\ UNCHANGED <<minefield_initialized, minefield, numberfield, mine_array,
                        first_guess>>

\* A call guess(x, y) made with the callers' frames stk: the two guards, the
\* start of mine placement on an uninitialized board, or the exposure.
Enter(x, y, stk) ==
    IF ~InRange(x, y) \/ exposedfield[<<x, y>>]
    THEN /\ ret' = "False"
         /\ stack' = stk
         /\ pc' = After(stk)
         /\ UNCHANGED <<minefield_initialized, minefield, exposedfield,
                        numberfield, mine_array, first_guess>>
    ELSE IF ~minefield_initialized
    THEN /\ pc' = "placing"
         /\ mine_array' = AllFalse(width, height)
         /\ stack' = Append(stk, Frame(x, y))
         /\ first_guess' = <<x, y>>
         /\ UNCHANGED <<minefield_initialized, minefield, exposedfield,
                        numberfield, ret>>
    ELSE /\ Expose(x, y, stk, numberfield)
         /\ UNCHANGED <<minefield_initialized, minefield, numberfield, mine_array,
                        first_guess>>

Init ==
    /\ pc = "new"
    /\ width = 0 /\ height = 0 /\ mines = 0
    /\ minefield_initialized = FALSE
    /\ minefield = None
    /\ exposedfield = None
    /\ numberfield = None
    /\ mine_array = None
    /\ stack = <<>>
    /\ ret = "None"
    /\ first_guess = None
    /\ ai = "None" /\ wr = "off" /\ calls = 0

\* MinesweeperGame(w, h, m, auto_first_guess): lines 14-21.
Construct(w, h, m, auto_first_guess) ==
    /\ pc = "new"
    /\ width' = w /\ height' = h /\ mines' = m
    /\ minefield_initialized' = FALSE
    /\ minefield' = None
    /\ exposedfield' = AllFalse(w, h)
    /\ numberfield' = None
    /\ pc' = IF auto_first_guess THEN "init" ELSE "idle"
    /\ UNCHANGED <<mine_array, stack, ret, first_guess>>

\* Line 22 when random.randrange is given an empty range: it raises ValueError
\* and the constructor does not return an object.
AutoGuessRaises ==
    /\ pc = "init"
    /\ (width <= 0 \/ height <= 0)
    /\ pc' = "raised"
    /\ UNCHANGED <<width, height, mines, minefield_initialized, minefield,
                   exposedfield, numberfield, mine_array, stack, ret, first_guess>>
    /\ UNCHANGED client

\* Line 22: self.guess(random.randrange(self.width), random.randrange(self.height)).
AutoGuess(x, y) ==
    /\ pc = "init"
    /\ width > 0 /\ height > 0
    /\ x \in 0 .. width - 1 /\ y \in 0 .. height - 1
    /\ Enter(x, y, <<>>)
    /\ UNCHANGED <<width, height, mines>>
    /\ UNCHANGED client

\* A call game.guess(x, y) by the client.
Guess(x, y) ==
    /\ pc = "idle"
    /\ Enter(x, y, <<>>)
    /\ UNCHANGED <<width, height, mines>>
    /\ UNCHANGED client

\* Mutant of PlacementContinues: the loop test is <= in place of <.
PlacementContinuesOnEqual == ArraySum(mine_array) <= mines

\* The test of generate_minefield's loop: while mine_array.sum() < self.mines.
PlacementContinues == ArraySum(mine_array) < mines

\* One iteration of generate_minefield's while loop with the random cell (x, y).
PlaceMine(x, y) ==
    /\ pc = "placing"
    /\ PlacementContinues
    /\ mine_array' = IF ~Avoided(first_guess[1], first_guess[2], x, y)
                     THEN [mine_array EXCEPT ![<<x, y>>] = TRUE]
                     ELSE mine_array
    /\ UNCHANGED <<pc, width, height, mines, minefield_initialized, minefield,
                   exposedfield, numberfield, stack, ret, first_guess>>
    /\ UNCHANGED client

\* The while loop's exit, line 55, generate_numberfield and lines 34-43 of the
\* guess call that triggered the placement.
FinishPlacement ==
    /\ pc = "placing"
    /\ ~PlacementContinues
    /\ minefield' = mine_array
    /\ numberfield' = NumberfieldOf(mine_array)
    /\ minefield_initialized' = TRUE
    /\ mine_array' = None
    /\ LET f == stack[Len(stack)] IN
       Expose(f.x, f.y, SubSeq(stack, 1, Len(stack) - 1), numberfield')
    /\ UNCHANGED <<width, height, mines, first_guess>>
    /\ UNCHANGED client

\* One pass of the inner loop body, line 42: self.guess(new_x, new_y).
Recurse ==
    /\ pc = "flood"
    /\ LET f == stack[Len(stack)] IN
       /\ f.i < 9
       /\ Enter(NewX(f), NewY(f),
                [stack EXCEPT ![Len(stack)] = [f EXCEPT !.i = f.i + 1]])
    /\ UNCHANGED <<width, height, mines>>
    /\ UNCHANGED client

\* Line 43 after the loops: return True.
Return ==
    /\ pc = "flood"
    /\ stack[Len(stack)].i = 9
    /\ stack' = SubSeq(stack, 1, Len(stack) - 1)
    /\ pc' = After(stack')
    /\ ret' = "True"
    /\ UNCHANGED <<width, height, mines, minefield_initialized, minefield,
                   exposedfield, numberfield, mine_array, first_guess>>
    /\ UNCHANGED client

Next ==
    \/ \E w \in -1 .. MaxWidth, h \in -1 .. MaxHeight, m \in 0 .. MaxMines,
          a \in BOOLEAN :
          /\ w * h <= MaxCells
          /\ Construct(w, h, m, a)
          /\ UNCHANGED client
    \/ AutoGuessRaises
    \/ \E x \in 0 .. MaxWidth - 1, y \in 0 .. MaxHeight - 1 : AutoGuess(x, y)
    \/ \E x \in -1 .. width, y \in -1 .. height : Guess(x, y)
    \/ \E x \in 0 .. width - 1, y \in 0 .. height - 1 : PlaceMine(x, y)
    \/ FinishPlacement
    \/ Recurse
    \/ Return

Spec == Init /\ [][Next]_vars

\* The interpreter keeps running a call that has been made: the loops of guess
\* go on to their next pass and return, and generate_minefield's loop goes on
\* drawing cells, each cell of the board being drawn again and again.
Running ==
    /\ WF_vars(Recurse)
    /\ WF_vars(Return)
    /\ WF_vars(FinishPlacement)
    /\ \A x \in 0 .. MaxWidth - 1, y \in 0 .. MaxHeight - 1 : WF_vars(PlaceMine(x, y))

FairSpec == Spec /\ Running

----------------------------------------------------------------------------
(* calculate_win_rate (src/utils.py) and the guessing policies (src/ais.py) *)

\* What default_rng().random((width, height)) may give: arrays of numbers
\* strictly between 0 and 1, here written in thirds (1 for 1/3, 2 for 2/3),
\* with at most one cell, h, above the others.
RandomArrays ==
    {[c \in Cells(width, height) |-> IF c = h THEN 2 ELSE 1] :
        h \in Cells(width, height)}

\* bool.astype(float), in thirds: True is 1.0.
AsFloat(b) == IF b THEN 3 ELSE 0

\* np.maximum(v, 0.0)
Maximum0(v) == IF v > 0 THEN v ELSE 0

\* Mutant of CheatingHeatmap: the minefield is not subtracted.
CheatingHeatmapNoMines(random_guess) ==
    IF minefield_initialized
    THEN [c \in Cells(width, height) |->
            Maximum0(random_guess[c] - AsFloat(exposedfield[c]))]
    ELSE random_guess

\* CheatingMinesweeperAI._guess_heatmap
CheatingHeatmap(random_guess) ==
    IF minefield_initialized
    THEN [c \in Cells(width, height) |->
            Maximum0(random_guess[c] - AsFloat(exposedfield[c])
                                     - AsFloat(minefield[c]))]
    ELSE random_guess

\* MinesweeperAI.guess: np.unravel_index(np.argmax(heatmap), heatmap.shape), the
\* first cell in row-major order (x * height + y) that holds the maximum.
Argmax(heatmap) ==
    CHOOSE c \in DOMAIN heatmap :
        \A d \in DOMAIN heatmap :
            \/ heatmap[d] < heatmap[c]
            \/ heatmap[d] = heatmap[c] /\ c[1] * height + c[2] <= d[1] * height + d[2]

\* calculate_win_rate, lines 22-23, for one game played by the policy a.
StartGame(w, h, m, a) ==
    /\ wr = "off"
    /\ Construct(w, h, m, FALSE)
    /\ ai' = a
    /\ wr' = "loop"
    /\ calls' = 0

\* Line 26 with the cheating policy on a board without cells: random() of a
\* negative dimension, or argmax of an empty array, raises ValueError.
CheatingGuessRaises ==
    /\ wr = "loop" /\ ai = "Cheating"
    /\ (width <= 0 \/ height <= 0)
    /\ wr' = "raised"
    /\ UNCHANGED <<pc, width, height, mines, minefield_initialized, minefield,
                   exposedfield, numberfield, mine_array, stack, ret, first_guess,
                   ai, calls>>

\* Lines 26-27 with the cheating policy and the random array random_guess.
CheatingGuess(random_guess) ==
    /\ wr = "loop" /\ ai = "Cheating"
    /\ width > 0 /\ height > 0
    /\ LET g == Argmax(CheatingHeatmap(random_guess)) IN Enter(g[1], g[2], <<>>)
    /\ wr' = "call"
    /\ calls' = calls + 1
    /\ UNCHANGED <<width, height, mines, ai>>

\* Lines 26-27 with a policy that may answer any pair of integers.
AnyGuess(x, y) ==
    /\ wr = "loop" /\ ai = "Any"
    /\ Enter(x, y, <<>>)
    /\ wr' = "call"
    /\ calls' = calls + 1
    /\ UNCHANGED <<width, height, mines, ai>>

\* Lines 29-30 and the loop test of line 25, once game.guess has returned.
LoopTest ==
    /\ wr = "call" /\ pc = "idle"
    /\ wr' = IF is_over \/ ret = "False" THEN "done" ELSE "loop"
    /\ UNCHANGED <<pc, width, height, mines, minefield_initialized, minefield,
                   exposedfield, numberfield, mine_array, stack, ret, first_guess,
                   ai, calls>>

\* The steps of the game object while one of its methods runs.
GameStep ==
    \/ \E x \in 0 .. width - 1, y \in 0 .. height - 1 : PlaceMine(x, y)
    \/ FinishPlacement
    \/ Recurse
    \/ Return

\* calculate_win_rate(w, h, m, CheatingMinesweeperAI(), 1)
NextCheating ==
    \/ \E w \in -1 .. MaxWidth, h \in -1 .. MaxHeight, m \in 0 .. MaxMines :
          /\ w * h <= MaxCells
          /\ StartGame(w, h, m, "Cheating")
    \/ CheatingGuessRaises
    \/ \E r \in RandomArrays : CheatingGuess(r)
    \/ LoopTest
    \/ GameStep

CheatingSpec == Init /\ [][NextCheating]_vars

\* calculate_win_rate(w, h, m, ai, 1) for an ai whose guess may answer anything.
NextAnyPolicy ==
    \/ \E w \in -1 .. MaxWidth, h \in -1 .. MaxHeight, m \in 0 .. MaxMines :
          /\ w * h <= MaxCells
          /\ StartGame(w, h, m, "Any")
    \/ \E x \in -1 .. width, y \in -1 .. height : AnyGuess(x, y)
    \/ LoopTest
    \/ GameStep

AnyPolicySpec == Init /\ [][NextAnyPolicy]_vars

----------------------------------------------------------------------------
(* Vocabulary of the properties                                            *)

\* The cells of the board.
Board == Cells(width, height)

\* The up-to-8 in-grid neighbours of cell c, c itself excluded.
Neighbours(c) ==
    {d \in Board : d # c /\ d[1] - c[1] \in -1 .. 1 /\ d[2] - c[2] \in -1 .. 1}

\* The mined and the exposed cells.
Mined == {c \in Board : minefield[c]}
Exposed == {c \in DOMAIN exposedfield : exposedfield[c]}

\* guess(x, y) is an invalid call in the current state.
Invalid(x, y) == ~InRange(x, y) \/ exposedfield[<<x, y>>]

\* The object's board fields are left as they are by a step.
BoardUnchanged ==
    UNCHANGED <<exposedfield, minefield, numberfield, minefield_initialized>>

----------------------------------------------------------------------------
\* C1: a guess call (by the client or recursive) whose coordinate is out of
\* range or already exposed returns False at once and leaves exposedfield,
\* minefield, numberfield and minefield_initialized as they were; on an
\* uninitialized board it does not start mine placement.
C1_InvalidGuessChangesNothing ==
    [][ /\ ( /\ pc = "idle"
             /\ \E x \in -1 .. width, y \in -1 .. height :
                    Invalid(x, y) /\ Guess(x, y) ) =>
              /\ ret' = "False"
              /\ pc' = "idle"
              /\ mine_array' = mine_array
              /\ BoardUnchanged
        /\ ( /\ pc = "flood"
             /\ Invalid(NewX(stack[Len(stack)]), NewY(stack[Len(stack)]))
             /\ Recurse ) =>
              /\ ret' = "False"
              /\ pc' = "flood"
              /\ Len(stack') = Len(stack)
              /\ BoardUnchanged
      ]_vars

\* An invalid guess has returned on a board that is still uninitialized.
C1_Witness ==
    /\ pc = "idle" /\ ret = "False"
    /\ width > 0 /\ height > 0
    /\ ~minefield_initialized /\ minefield = None /\ Exposed = {}

\* C2: the layout generated for the first guess (x, y) has no mine at (x, y)
\* or at any in-grid neighbour of it, and lost is false when that first guess
\* call returns.
C2_FirstClickSafe ==
    [][ /\ FinishPlacement =>
              \A c \in Board :
                  (c = first_guess \/ c \in Neighbours(first_guess)) => ~minefield'[c]
        /\ ( /\ FinishPlacement \/ Return
             /\ stack' = <<>>
             /\ <<stack[1].x, stack[1].y>> = first_guess ) => ~lost'
      ]_vars

\* The first guess has returned on a board that holds two mines.
C2_Witness ==
    /\ pc = "idle" /\ minefield_initialized
    /\ first_guess = <<1, 1>>
    /\ Cardinality(Mined) = 2
    /\ Exposed = {first_guess} \cup Neighbours(first_guess)

\* C3: on an initialized board numberfield[x][y] is, for every cell, the number
\* of its in-grid neighbours that hold a mine (the cell itself not counted), and
\* generate_numberfield applied to the stored minefield gives the stored numberfield.
C3_NumberfieldCountsNeighbours ==
    minefield_initialized =>
        /\ \A c \in Board :
              numberfield[c] = Cardinality({d \in Neighbours(c) : minefield[d]})
        /\ numberfield = NumberfieldOf(minefield)

\* Guesses have been made after placement on a board where some cell has two
\* mined neighbours and some mined cell has a mined neighbour.
C3_Witness ==
    /\ pc = "idle" /\ minefield_initialized
    /\ Exposed # {first_guess} \cup Neighbours(first_guess)
    /\ \E c \in Board : numberfield[c] = 2
    /\ \E c \in Mined : numberfield[c] = 1

\* C4: won is true iff mines are placed and the exposed set is exactly the
\* complement of the mine layout; lost is true iff mines are placed and a mined
\* cell is exposed; won and lost are never both true; is_over is lost or won.
C4_WonLost ==
    /\ won <=> (minefield_initialized /\ Exposed = Board \ Mined)
    /\ lost <=> (minefield_initialized /\ Exposed \cap Mined # {})
    /\ ~(won /\ lost)
    /\ is_over <=> (lost \/ won)

\* A game with two mines has been won.
C4_Witness ==
    /\ pc = "idle" /\ won /\ is_over /\ ~lost
    /\ Cardinality(Mined) = 2

\* C5: guess(x, y) returns True exactly when the chosen cell had not already
\* been revealed and does not contain a mine, and False in every other case.
\* A call returns either at once (the client's call comes back to "idle" in
\* one step) or from its loops (the last frame is popped, its cell having been
\* unexposed when the call was made).
C5_ReturnsAsDocumented ==
    [][ /\ pc = "idle" =>
              \A x \in -1 .. width, y \in -1 .. height :
                  (Guess(x, y) /\ pc' = "idle") =>
                      (ret' = "True" <=>
                          /\ InRange(x, y)
                          /\ ~exposedfield[<<x, y>>]
                          /\ ~minefield[<<x, y>>])
        /\ (pc = "flood" /\ Return /\ stack' = <<>>) =>
              (ret' = "True" <=> ~minefield[<<stack[1].x, stack[1].y>>])
      ]_vars

\* C6: no cell is exposed after construction without auto_first_guess; a cell
\* that is exposed stays exposed across every step of every guess call; a valid
\* guess(x, y) exposes (x, y): the cell of every call that is in its loops, and
\* of a client's call that returned True at once, is exposed.
C6_ExposedOnlyGrows ==
    [][ /\ (pc = "new" /\ pc' = "idle") => \A c \in DOMAIN exposedfield' : ~exposedfield'[c]
        /\ \A c \in DOMAIN exposedfield :
              exposedfield[c] => (c \in DOMAIN exposedfield' /\ exposedfield'[c])
        /\ pc' = "flood" =>
              \A k \in 1 .. Len(stack') : exposedfield'[<<stack'[k].x, stack'[k].y>>]
        /\ pc = "idle" =>
              \A x \in 0 .. width - 1, y \in 0 .. height - 1 :
                  (~Invalid(x, y) /\ Guess(x, y) /\ pc' # "placing") =>
                      exposedfield'[<<x, y>>]
        /\ (pc = "placing" /\ FinishPlacement) => exposedfield'[first_guess]
      ]_vars

\* A later valid guess is running its loops over a board that already had
\* exposed cells, and has exposed more than one further cell.
C6_Witness ==
    /\ pc = "flood"
    /\ <<stack[1].x, stack[1].y>> # first_guess
    /\ Cardinality(Exposed \ ({first_guess} \cup Neighbours(first_guess))) > 1

\* C7: minefield_initialized is false, and minefield and numberfield are
\* absent, until the first valid guess; it becomes true during that call and
\* never becomes false again; once it is true no step changes minefield or
\* numberfield.
C7_InitializedOnce ==
    [][ /\ ~minefield_initialized =>
              /\ minefield = None /\ numberfield = None
              /\ Exposed = {}
        /\ (~minefield_initialized /\ minefield_initialized') =>
              /\ pc = "placing" /\ Len(stack) = 1
              /\ <<stack[1].x, stack[1].y>> = first_guess
              /\ DOMAIN minefield' = Board /\ DOMAIN numberfield' = Board
        /\ minefield_initialized =>
              /\ minefield_initialized'
              /\ minefield' = minefield
              /\ numberfield' = numberfield
      ]_vars

\* A recursive call of the guess that triggered the placement has run, and
\* further guesses have followed it.
C7_Witness ==
    /\ minefield_initialized /\ pc = "flood"
    /\ <<stack[1].x, stack[1].y>> # first_guess
    /\ Cardinality(Mined) = 2

\* C8: construction rejects a non-positive width or height, so that no board
\* object with an empty or malformed grid exists.
C8_ConstructionValidates ==
    pc \in {"idle", "placing", "flood"} => (width > 0 /\ height > 0)

\* C9: after construction and before any guess call, visible_gamestate is the
\* unknown sentinel in every cell and lost, won and is_over are false.
C9_FreshBoard ==
    (pc = "idle" /\ ret = "None") =>
        /\ ~visible_gamestate_raises
        /\ visible_gamestate = [c \in Board |-> Unknown]
        /\ ~lost /\ ~won /\ ~is_over

\* C10: whenever a client's guess call has returned, every exposed cell whose
\* count is 0 has all its in-grid neighbours exposed, so every unexposed cell
\* borders only unexposed cells and exposed cells whose count is at least 1.
C10_FloodFillClosed ==
    (pc = "idle" /\ minefield_initialized) =>
        /\ \A c \in Exposed : numberfield[c] = 0 => Neighbours(c) \subseteq Exposed
        /\ \A c \in Board \ Exposed :
              \A d \in Neighbours(c) \cap Exposed : numberfield[d] >= 1

\* A guess has returned after exposing a region of more than one zero-count
\* cell on a board with a mine, part of the board staying unexposed.
C10_Witness ==
    /\ pc = "idle" /\ minefield_initialized
    /\ Cardinality(Mined) = 2
    /\ Cardinality({c \in Exposed : numberfield[c] = 0}) > 2
    /\ Cardinality(Board \ Exposed) > 2

\* The cells generate_minefield may mine for a first guess at cell g: those
\* outside the 3x3 block around g.
Eligible(g) == Board \ ({g} \cup Neighbours(g))

\* The client's guess call whose loops are running was made on this cell.
TopCell == <<stack[1].x, stack[1].y>>

\* C11: every cell exposed by a recursive guess call is mine-free, so a mined
\* cell is exposed only as the coordinate of a client's guess call; a client's
\* guess on a mine-free cell never turns lost from false to true.
C11_FloodNeverExposesMine ==
    [][ /\ (pc = "flood" /\ Recurse) =>
              /\ \A c \in Board : (exposedfield'[c] /\ ~exposedfield[c]) => ~minefield[c]
              /\ lost' = lost
        /\ (pc = "placing" /\ FinishPlacement) => ~lost'
        /\ (pc = "idle" /\ minefield_initialized) =>
              \A c \in Board :
                  (exposedfield'[c] /\ ~exposedfield[c] /\ ~minefield[c]) => lost' = lost
        /\ (pc = "idle" /\ minefield_initialized) =>
              \A c \in Board :
                  (exposedfield'[c] /\ ~exposedfield[c] /\ minefield[c]) =>
                      (Guess(c[1], c[2]) /\ lost')
      ]_vars

\* A guess on a mined cell whose count is 0 is running its loops and has
\* exposed neighbours of the mine by recursive calls.
C11_Witness ==
    /\ pc = "flood" /\ minefield[TopCell]
    /\ Len(stack) = 1 /\ stack[1].i = 9
    /\ Neighbours(TopCell) # {}
    /\ Neighbours(TopCell) \subseteq Exposed
    /\ Exposed \cap Mined = {TopCell}

\* C12: on a board with 0 mines an in-range first guess is accepted, returns
\* True, has exposed every cell by the time it returns, and leaves won true
\* and lost false.
C12_NoMinesFirstGuessWins ==
    [][ mines = 0 =>
          /\ (~minefield_initialized /\ pc \in {"idle", "init"}) =>
                \A x \in 0 .. width - 1, y \in 0 .. height - 1 :
                    (Guess(x, y) \/ AutoGuess(x, y)) => pc' = "placing"
          /\ (pc = "placing" /\ FinishPlacement) => pc' = "flood"
          /\ (pc = "flood" /\ Return /\ stack' = <<>>) =>
                /\ ret' = "True"
                /\ TopCell = first_guess
                /\ Exposed' = Board
                /\ won' /\ ~lost'
      ]_vars

\* The first guess on a 2x2 board with 0 mines has returned.
C12_Witness ==
    /\ pc = "idle" /\ mines = 0 /\ width = 2 /\ height = 2
    /\ ret = "True" /\ won /\ Exposed = Board

\* C13: while generate_minefield runs, and once it has completed, no cell of
\* the 3x3 block around the first guess is mined and at most `mines` cells
\* are; when it has completed, exactly `mines` cells are mined.
C13_ExactMineCount ==
    /\ pc = "placing" =>
          /\ ArraySum(mine_array) <= mines
          /\ {c \in Board : mine_array[c]} \subseteq Eligible(first_guess)
    /\ minefield_initialized =>
          /\ Cardinality(Mined) = mines
          /\ Mined \subseteq Eligible(first_guess)
          /\ mines <= Cardinality(Eligible(first_guess))

\* Placement has completed where the eligible cells are exactly as many as
\* the mines asked for, each of them mined.
C13_Witness ==
    /\ minefield_initialized /\ mines = 2
    /\ Cardinality(Eligible(first_guess)) = 2
    /\ Mined = Eligible(first_guess)

\* C14: on every board object visible_gamestate is a width x height grid that
\* shows the count (0 to 8) of each exposed cell and the sentinel -10 for each
\* unexposed cell, every cell being the sentinel while mines are not placed.
C14_VisibleGamestate ==
    pc \in {"idle", "placing", "flood"} =>
        /\ ~visible_gamestate_raises
        /\ DOMAIN visible_gamestate = Board
        /\ \A c \in Board :
              IF minefield_initialized /\ exposedfield[c]
              THEN visible_gamestate[c] = numberfield[c] /\ numberfield[c] \in 0 .. 8
              ELSE visible_gamestate[c] = -10

\* The cells of the calls that are in their loops, outermost first.
FrameCells == [k \in 1 .. Len(stack) |-> <<stack[k].x, stack[k].y>>]

\* The loop passes the active calls still have to make.
RECURSIVE PassesLeft(_)
PassesLeft(stk) ==
    IF stk = <<>> THEN 0 ELSE (9 - stk[Len(stk)].i) + PassesLeft(SubSeq(stk, 1, Len(stk) - 1))

\* What is left to do for the running guess call: ten units for each unexposed
\* cell, one for each active call and one for each loop pass it has left.
WorkLeft == 10 * Cardinality(Board \ Exposed) + Len(stack) + PassesLeft(stack)

\* C15: a guess call on an initialized board terminates. A step that changes
\* the exposed set exposes exactly one cell, which was unexposed; the active
\* calls are on pairwise distinct, exposed cells, so the nesting depth is at
\* most the number of cells; each step of the loops lowers WorkLeft; and a
\* call that is in its loops gets back to the client.
C15_GuessTerminates ==
    /\ [](pc = "flood" =>
            /\ Len(stack) <= Cardinality(Board)
            /\ \A j, k \in 1 .. Len(stack) : FrameCells[j] = FrameCells[k] => j = k
            /\ \A k \in 1 .. Len(stack) : FrameCells[k] \in Exposed)
    /\ [][ /\ (minefield_initialized /\ exposedfield' # exposedfield) =>
                  \E c \in Board \ Exposed : Exposed' = Exposed \cup {c}
            /\ pc = "flood" => (WorkLeft' < WorkLeft /\ WorkLeft' >= 0)
          ]_vars
    /\ (pc = "flood" ~> pc = "idle")

\* On a board of at least nine cells as many calls are nested as the board
\* has cells.
C15_Witness ==
    /\ pc = "flood" /\ minefield_initialized
    /\ Cardinality(Board) >= 9
    /\ Len(stack) = Cardinality(Board)

\* C16: if `mines` exceeds the number of cells outside the 3x3 block of the
\* first guess, generate_minefield never returns: the first guess stays in the
\* loop, the board stays uninitialized and no cell is exposed. If `mines` is
\* at most that number, the loop exits, each cell being drawn again and again.
C16_PlacementTerminatesIffFeasible ==
    /\ []((first_guess # None /\ mines > Cardinality(Eligible(first_guess))) =>
            /\ pc = "placing"
            /\ ~minefield_initialized
            /\ Exposed = {})
    /\ ((pc = "placing" /\ mines <= Cardinality(Eligible(first_guess)))
            ~> minefield_initialized)

\* The first guess at the centre of a 3x3 board with 1 mine is in the loop
\* of generate_minefield, which has no cell it may mine.
C16_Witness ==
    /\ pc = "placing" /\ width = 3 /\ height = 3 /\ mines = 1
    /\ first_guess = <<1, 1>>
    /\ Eligible(first_guess) = {}

\* C17: when the first valid guess at (x, y) returns, the count at (x, y) is
\* 0, (x, y) and all its in-grid neighbours are exposed, and no mined cell is.
C17_FirstGuessOpensBlock ==
    [][ /\ (pc = "placing" /\ FinishPlacement) =>
              (numberfield'[first_guess] = 0 /\ pc' = "flood")
        /\ (pc = "flood" /\ Return /\ stack' = <<>> /\ TopCell = first_guess) =>
              /\ numberfield[first_guess] = 0
              /\ ({first_guess} \cup Neighbours(first_guess)) \subseteq Exposed'
              /\ Exposed' \cap Mined = {}
              /\ ret' = "True"
      ]_vars

\* The first guess, at the corner (0, 0) of a 4x3 board with 1 mine, has
\* returned with the mine unexposed.
C17_Witness ==
    /\ pc = "idle" /\ minefield_initialized
    /\ width = 4 /\ height = 3 /\ mines = 1
    /\ first_guess = <<0, 0>>
    /\ {<<0, 0>>, <<1, 0>>, <<0, 1>>, <<1, 1>>} \subseteq Exposed
    /\ Exposed \cap Mined = {} /\ Cardinality(Mined) = 1
    /\ ret = "True"

\* C18: in a game that calculate_win_rate plays with CheatingMinesweeperAI,
\* every guess the policy can submit (whatever the random scores) is an
\* in-range unexposed cell that holds no mine, lost is never true, and the loop
\* is left only with won true.
C18_CheatingAlwaysWins ==
    /\ ~lost
    /\ wr = "done" => won
    /\ (wr = "loop" /\ ai = "Cheating" /\ width > 0 /\ height > 0) =>
          \A r \in RandomArrays :
              LET g == Argmax(CheatingHeatmap(r)) IN
              /\ InRange(g[1], g[2])
              /\ ~exposedfield[g]
              /\ minefield_initialized => ~minefield[g]

\* A game on a board with two mines has been won by the cheating policy with
\* its fourth guess.
C18_Witness ==
    /\ ai = "Cheating" /\ wr = "done" /\ won
    /\ Cardinality(Mined) = 2 /\ calls = 4

\* C19: in a game that calculate_win_rate plays with any policy, each iteration
\* that does not stop the loop has enlarged the exposed set, so at the head of
\* the loop at least as many cells are exposed as guess calls were made; the
\* loop is left only on an invalid guess or a game that is over; a board whose
\* cells are all exposed has is_over true; and the game makes at most
\* width*height (the number of cells) top-level guess calls.
C19_LoopBounded ==
    (wr = "loop" \/ wr = "call" \/ wr = "done") =>
        /\ wr = "loop" => Cardinality(Exposed) >= calls
        /\ wr = "done" => (ret = "False" \/ is_over)
        /\ (pc = "idle" /\ Exposed = Board) => is_over
        /\ calls <= Cardinality(Board)

\* C20: guess does not refuse a move after the game has ended (a client's
\* guess at an in-range unexposed cell of a game that is over exposes the cell),
\* yet no step takes is_over from true to false; lost never reverts to false;
\* and won becomes false only in a client's valid guess at a mined cell, a step
\* that makes lost true.
C20_GameEndAbsorbing ==
    [][ /\ lost => lost'
        /\ is_over => is_over'
        /\ (pc = "idle" /\ is_over) =>
               \A x \in 0 .. width - 1, y \in 0 .. height - 1 :
                   (Guess(x, y) /\ ~exposedfield[<<x, y>>])
                       => exposedfield'[<<x, y>>]
        /\ (won /\ ~won') =>
               /\ lost'
               /\ \E c \in Mined :
                      /\ ~exposedfield[c]
                      /\ Guess(c[1], c[2])
                      /\ exposedfield'[c]
      ]_vars

\* A finished guess call has exposed a second mine: it was accepted in a game
\* that was already lost.
C20_Witness ==
    /\ pc = "idle" /\ ret = "True"
    /\ Cardinality(Exposed \cap Mined) = 2

====
